---------------------------- MODULE Spec2Model ----------------------------
(***************************************************************************)
(* A model of wuvt/dmca: an HTTP handler that serves one FLAC track,       *)
(* fetched from an object store (MOSS), after looking the track up in a    *)
(* catalog (IMPALA).  The repository holds four generations of             *)
(* trackHandler:                                                           *)
(*   "stub"      src/unnamed/part_000 match the path, ask the catalog and  *)
(*                                    answer 500 whatever it says          *)
(*   "tempfile"  src/main.go          download to a temporary file, run    *)
(*                                    the metaflac tool on it, serve it    *)
(*   "copy"      src/unnamed/part_001 check the signature, copy STREAMINFO *)
(*                                    and then everything else verbatim    *)
(*   "walker"    src/unnamed/part_002 as "copy", but walking the metadata  *)
(*                                    blocks with parseBlockHeader/Marshal *)
(* The variable variant says which of them serves the request.             *)
(* Bytes are integers 0..255; the request path is a sequence of one-       *)
(* character strings.                                                      *)
(***************************************************************************)
EXTENDS Integers, Sequences, FiniteSets, TLC

VARIABLES
    variant,     \* which trackHandler serves the request
    pc,          \* position of the handler in its code
    method,      \* r.Method
    path,        \* r.URL.Path
    track,       \* *TrackJSON returned by loadTrackInfo, or NoTrack
    lookup,      \* what the catalog answered to the lookup, or NoLookup
    catalogCalls,\* HTTP requests sent to the catalog so far
    storeCalls,  \* HTTP requests sent to the object store so far
    resp,        \* the object store's *http.Response, or NoResp (nil)
    rpos,        \* bytes of resp.Body consumed so far
    bodyClosed,  \* resp.Body.Close() has run
    status,      \* status line sent to the client, 0 while none is sent
    ctype,       \* Content-Type header of the response
    errs,        \* status codes passed to http.Error / http.NotFound, in order
    out,         \* track bytes written to the client
    sinkBroken,  \* the client connection no longer accepts writes
    block,       \* walker: the BlockHeader decoded last
    emitted,     \* walker: headers written so far (STREAMINFO's first)
    hdrReads,    \* walker: offsets of resp.Body at which a header was decoded
    ioOps,       \* reads from the source and writes to the client, in order
    failed,      \* a read or a write has failed
    tmp,         \* tempfile: the temporary file
    stdin,       \* tempfile: what the handler feeds to metaflac
    fileOpen,    \* tempfile: the reopened file f is open
    h,           \* codec: the BlockHeader under test
    packed,      \* codec: its 4 bytes
    reparsed     \* codec: the header decoded from packed

vars == <<variant, pc, method, path, track, lookup, catalogCalls, storeCalls, resp,
          rpos, bodyClosed, status, ctype, errs, out, sinkBroken, block,
          emitted, hdrReads, ioOps, failed, tmp, stdin, fileOpen,
          h, packed, reparsed>>

handlerVars == <<variant, pc, method, path, track, lookup, catalogCalls, storeCalls,
                 resp, rpos, bodyClosed, status, ctype, errs, out, sinkBroken,
                 block, emitted, hdrReads, ioOps, failed, tmp, stdin, fileOpen>>

codecVars == <<h, packed, reparsed>>

-----------------------------------------------------------------------------
(* Sequences of bytes *)

Take(s, n) == SubSeq(s, 1, IF n < Len(s) THEN n ELSE Len(s))

Drop(s, n) == SubSeq(s, n + 1, Len(s))

Rep(b, n) == [i \in 1..n |-> b]

Min(a, b) == IF a < b THEN a ELSE b

RECURSIVE Flatten(_)
Flatten(ss) == IF ss = <<>> THEN <<>> ELSE Head(ss) \o Flatten(Tail(ss))

-----------------------------------------------------------------------------
(* Block header codec: src/unnamed/part_002 lines 57-84 *)

NoBlock == [LastBlock |-> FALSE, Type |-> 0, Length |-> 0]

\* bit.Reader.ReadFields(1, 7, 24) over 4 bytes, most significant bit first
ReadFields(b) ==
    << b[1] \div 128, b[1] % 128, b[2] * 65536 + b[3] * 256 + b[4] >>

\* a parseBlockHeader that takes the whole first byte as the type
parseBlockHeaderWideType(b) ==
    [LastBlock |-> b[1] \div 128 = 1, Type |-> b[1],
     Length |-> b[2] * 65536 + b[3] * 256 + b[4]]

\* a parseBlockHeader that reads the flag inverted
parseBlockHeaderInvertedFlag(b) ==
    [LastBlock |-> b[1] \div 128 = 0, Type |-> b[1] % 128,
     Length |-> b[2] * 65536 + b[3] * 256 + b[4]]

\* parseBlockHeader once the 4 bytes are there (the short read is in the
\* walker's ParseHeader step)
parseBlockHeader(b) ==
    LET fields == ReadFields(b)
    IN  [LastBlock |-> fields[1] = 1, Type |-> fields[2], Length |-> fields[3]]

\* packed[0] ^= 0x80 on a uint8
Xor80(t) == IF t >= 128 THEN t - 128 ELSE t + 128

\* a Marshal that forgets the last-block flag
MarshalNoFlag(b) ==
    << b.Type % 256, (b.Length \div 65536) % 256, (b.Length \div 256) % 256,
       b.Length % 256 >>

\* a Marshal that sets the last-block flag on every header
MarshalAlwaysFlag(b) ==
    << 128 + (b.Type % 128), (b.Length \div 65536) % 256, (b.Length \div 256) % 256,
       b.Length % 256 >>

\* a Marshal that packs the length little-endian
MarshalLittleEndian(b) ==
    << IF b.LastBlock THEN Xor80(b.Type % 256) ELSE b.Type % 256,
       b.Length % 256, (b.Length \div 256) % 256, (b.Length \div 65536) % 256 >>

\* BlockHeader.Marshal
Marshal(b) ==
    LET t == b.Type % 256
    IN  << IF b.LastBlock THEN Xor80(t) ELSE t,
           (b.Length \div 65536) % 256,
           (b.Length \div 256) % 256,
           b.Length % 256 >>

-----------------------------------------------------------------------------
(* Inputs: FLAC objects, built byte by byte independently of Marshal *)

\* "fLaC", part_002 line 158
Magic == <<102, 76, 97, 67>>

\* 0x26: the STREAMINFO header and body, part_002 line 179
StreamInfoLen == 38

\* length of the long PADDING block among the inputs
PadLen == 60

\* a 32-bit little-endian length field of a Vorbis comment
LE32(n) == << n % 256, (n \div 256) % 256, (n \div 65536) % 256,
              (n \div 16777216) % 256 >>

EncodeHeader(last, type, len) ==
    << (IF last THEN 128 ELSE 0) + type, (len \div 65536) % 256,
       (len \div 256) % 256, len % 256 >>

Blk(last, type, body) == EncodeHeader(last, type, Len(body)) \o body

StreamInfo(last) == EncodeHeader(last, 0, StreamInfoLen - 4)
                        \o [i \in 1..(StreamInfoLen - 4) |-> i]

Container(fixedLast, blocks, audio) ==
    Magic \o StreamInfo(fixedLast) \o Flatten(blocks) \o audio

TagsBody(vendor, entries) ==
    LE32(Len(vendor)) \o vendor \o LE32(Len(entries))
        \o Flatten([i \in 1..Len(entries) |-> LE32(Len(entries[i])) \o entries[i]])

\* ASCII
ARTIST == <<65, 82, 84, 73, 83, 84>>
TITLE  == <<84, 73, 84, 76, 69>>
ALBUM  == <<65, 76, 66, 85, 77>>
LABEL  == <<76, 65, 66, 69, 76>>
EQ     == <<61>>
NL     == <<10>>
DmcaTest == <<100, 109, 99, 97, 32, 116, 101, 115, 116>>   \* "dmca test"

ArtistOld  == ARTIST \o EQ \o <<79, 108, 100>>                   \* ARTIST=Old
artistLow  == <<97, 114, 116, 105, 115, 116>> \o EQ \o <<111>>   \* artist=o
GenreRock  == <<71, 69, 78, 82, 69>> \o EQ \o <<82>>             \* GENRE=R
DateEntry  == <<68, 65, 84, 69>> \o EQ \o <<57>>                 \* DATE=9
LongTitle  == TITLE \o EQ \o Rep(120, 70)                        \* TITLE=xxx...

Frames == <<255, 248, 201, 24>>

TagsOld   == TagsBody(<<>>, <<ArtistOld>>)
TagsMixed == TagsBody(<<118>>, <<GenreRock, artistLow, DateEntry, ArtistOld>>)
TagsLong  == TagsBody(<<>>, <<LongTitle, GenreRock>>)

\* signature + STREAMINFO + TAGS(last): the scenario of the specification
ObjTagsLast == Container(FALSE, <<Blk(TRUE, 4, TagsOld)>>, Frames)

ValidObjects ==
    { ObjTagsLast,
      Container(FALSE, <<Blk(FALSE, 4, TagsMixed), Blk(TRUE, 1, Rep(0, PadLen))>>, Frames),
      Container(FALSE, <<Blk(FALSE, 4, TagsLong), Blk(FALSE, 1, Rep(0, 3)),
                         Blk(TRUE, 3, [i \in 1..18 |-> i])>>, Frames),
      Container(FALSE, <<Blk(TRUE, 1, Rep(0, 3))>>, Frames),
      Container(FALSE, <<Blk(TRUE, 4, TagsLong)>>, Frames),
      Container(FALSE, <<Blk(FALSE, 1, Rep(0, 33)), Blk(TRUE, 4, TagsMixed)>>, Frames),
      Container(FALSE, <<Blk(FALSE, 2, <<7, 7>>), Blk(FALSE, 4, TagsOld),
                         Blk(TRUE, 127, <<9>>)>>, <<>>),
      Container(FALSE, <<Blk(FALSE, 1, <<>>), Blk(TRUE, 6, Rep(5, 2))>>, <<255>>) }

\* STREAMINFO is the last metadata block; the frames follow it directly
FixedLastObjects ==
    { Container(TRUE, <<>>, Frames \o <<0, 0, 0>>),
      Container(TRUE, <<>>, <<129, 0, 0, 1, 5, 255, 248>>),
      Container(TRUE, <<>>, <<255, 248, 201>>),
      Container(TRUE, <<>>, <<>>) }

BrokenObjects ==
    { <<>>,
      <<102, 76>>,
      <<79, 103, 103, 83, 0, 2>>,
      Take(ObjTagsLast, 20),
      Take(ObjTagsLast, StreamInfoLen + 6),
      Take(ObjTagsLast, StreamInfoLen + 20),
      Container(FALSE, <<Blk(FALSE, 1, <<0, 0>>)>>, <<>>),
      Container(FALSE, <<Blk(FALSE, 1, <<0, 0>>)>>, <<3, 1>>) }

Objects == ValidObjects \cup FixedLastObjects \cup BrokenObjects

-----------------------------------------------------------------------------
(* The request *)

Variants == {"stub", "tempfile", "copy", "walker"}

\* the handlers that check the method and look the track up with loadTrackInfo
\* (main.go, part_001, part_002)
WithLookup == {"tempfile", "copy", "walker"}

Prefix == <<"/", "t", "r", "a", "c", "k", "/">>

Flac == <<"f", "l", "a", "c">>

UUID == <<"0","1","2","3","a","b","c","d","-","4","5","6","7","-","8","9","e","f",
          "-","0","0","0","0","-","a","a","a","a","b","b","b","b","c","c","c","c">>

UUIDUpper == [UUID EXCEPT ![5] = "A"]

Paths ==
    { Prefix \o UUID \o <<".">> \o Flac,
      Prefix \o UUID \o <<"x">> \o Flac,
      Prefix \o UUID \o <<"\n">> \o Flac,
      Prefix \o UUIDUpper \o <<".">> \o Flac,
      Prefix \o UUID \o <<".">> \o Flac \o <<"x">>,
      Prefix \o <<"a", "b", "c">> \o <<".">> \o Flac,
      <<"/">> \o Prefix \o UUID \o <<".">> \o Flac }

Methods == {"GET", "POST", "HEAD"}

HexLower == {"0","1","2","3","4","5","6","7","8","9","a","b","c","d","e","f"}

\* the paths the interface names: /track/<identifier>.flac with a literal dot
ExactTrackPath(p) ==
    /\ Len(p) = 48
    /\ SubSeq(p, 1, 7) = Prefix
    /\ \A i \in 8..43 : IF i \in {16, 21, 26, 31} THEN p[i] = "-" ELSE p[i] \in HexLower
    /\ p[44] = "."
    /\ SubSeq(p, 45, 48) = Flac

\* trackRe.FindStringSubmatch(r.URL.Path) finds a match:
\* ^/track/([a-f0-9]{8}-[a-f0-9]{4}-[a-f0-9]{4}-[a-f0-9]{4}-[a-f0-9]{12}).flac$
\* where the unescaped dot matches any character but a newline
trackRe(p) ==
    /\ Len(p) = 48
    /\ SubSeq(p, 1, 7) = Prefix
    /\ \A i \in 8..43 : IF i \in {16, 21, 26, 31} THEN p[i] = "-" ELSE p[i] \in HexLower
    /\ p[44] # "\n"
    /\ SubSeq(p, 45, 48) = Flac

-----------------------------------------------------------------------------
(* The catalog: loadTrackInfo, part_002 lines 86-126 *)

NoTrack == [Artist |-> <<>>, Title |-> <<>>, found |-> FALSE]

Tracks ==
    { [Artist |-> <<78, 101, 119>>, Title |-> <<116>>, found |-> TRUE],
      [Artist |-> <<110, 10, 71, 61, 121>>, Title |-> <<116>>, found |-> TRUE] }

NoLookup == [kind |-> "none", code |-> 0, data |-> NoTrack]

\* what the catalog does with the login and the lookup
CatalogReplies ==
    { [kind |-> "loginErr", code |-> 0, data |-> NoTrack],
      [kind |-> "getErr", code |-> 0, data |-> NoTrack],
      [kind |-> "status", code |-> 404, data |-> NoTrack],
      [kind |-> "status", code |-> 500, data |-> NoTrack],
      [kind |-> "status", code |-> 401, data |-> NoTrack],
      [kind |-> "badJSON", code |-> 200, data |-> NoTrack] }
    \cup { [kind |-> "status", code |-> 200, data |-> t] : t \in Tracks }

\* a loadTrackInfo that reports every non-200 answer as a fetch error
loadTrackInfoNo404(reply) ==
    [ calls |-> IF reply.kind = "loginErr" THEN 1 ELSE 2,
      err   |-> CASE reply.kind \in {"loginErr", "getErr", "badJSON"} -> "error"
                  [] reply.code # 200 -> "TrackFetchError"
                  [] OTHER -> "nil",
      data  |-> reply.data ]

\* loadTrackInfo: the requests it sends, the error it returns and the data
loadTrackInfo(reply) ==
    [ calls |-> IF reply.kind = "loginErr" THEN 1 ELSE 2,
      err   |-> CASE reply.kind \in {"loginErr", "getErr", "badJSON"} -> "error"
                  [] reply.code = 404 -> "TrackNotFoundError"
                  [] reply.code # 200 -> "TrackFetchError"
                  [] OTHER -> "nil",
      data  |-> reply.data ]

-----------------------------------------------------------------------------
(* The object store *)

NoResp == [err |-> TRUE, code |-> 0, body |-> <<>>]

StoreReplies ==
    {NoResp}
    \cup { [err |-> FALSE, code |-> 200, body |-> b] : b \in Objects }
    \cup { [err |-> FALSE, code |-> c, body |-> b] :
             c \in {404, 500}, b \in {<<60, 104, 62>>, ObjTagsLast} }

-----------------------------------------------------------------------------
(* Reading the source and writing to the client *)

NoTmp == [exists |-> FALSE, removed |-> FALSE, closed |-> FALSE,
          complete |-> FALSE, tagged |-> FALSE, content |-> <<>>]

Remaining == Len(resp.body) - rpos

IOModes == {"ok", "rerr", "werr"}

\* io.CopyN(w, resp.Body, n) and, with n = -1, io.Copy(w, resp.Body): what is
\* consumed, what reaches the client and whether an error comes back.
\*   "rerr" the source fails before it yields a byte
\*   "werr" the client refuses the bytes that were read
\* A source that ends early is an error for CopyN and the end for Copy.
CopyN(n, mode) ==
    LET avail == IF n < 0 THEN Remaining ELSE Min(n, Remaining)
        chunk == SubSeq(resp.body, rpos + 1, rpos + avail)
    IN  CASE n = 0 ->
               [rpos |-> rpos, out |-> out, err |-> FALSE, broken |-> sinkBroken, ops |-> <<>>]
          [] n # 0 /\ mode = "rerr" ->
               [rpos |-> rpos, out |-> out, err |-> TRUE, broken |-> sinkBroken, ops |-> <<"r">>]
          [] n # 0 /\ mode = "werr" ->
               [rpos |-> rpos + avail, out |-> out, err |-> TRUE, broken |-> TRUE,
                ops |-> <<"r", "w">>]
          [] OTHER ->
               [rpos |-> rpos + avail, out |-> out \o chunk,
                err |-> (n > 0 /\ avail < n), broken |-> sinkBroken,
                ops |-> IF avail > 0 THEN <<"r", "w">> ELSE <<"r">>]

\* the modes a copy of n bytes can take in the current state
CopyModes(n) ==
    LET avail == IF n < 0 THEN Remaining ELSE Min(n, Remaining)
    IN  { m \in IOModes :
            /\ (m = "ok") => (avail = 0 \/ ~sinkBroken)
            /\ (m = "werr") => avail > 0
            /\ (m = "rerr") => n # 0 }

\* http.Error(w, msg, code) and http.NotFound: the status line goes out only
\* if none has gone out before
WriteHeader(code) == IF status = 0 THEN code ELSE status

-----------------------------------------------------------------------------
(* trackHandler, the part main.go, part_001 and part_002 share *)

\* part_002 lines 129-132 (main.go 103-106, part_001 99-102): the method check
CheckMethod ==
    /\ variant \in WithLookup
    /\ pc = "start"
    /\ IF method # "GET"
       THEN /\ errs' = Append(errs, 405)
            /\ status' = WriteHeader(405)
            /\ ctype' = "text/plain"
            /\ pc' = "done"
       ELSE /\ pc' = "match"
            /\ UNCHANGED <<errs, status, ctype>>
    /\ UNCHANGED <<variant, method, path, track, lookup, catalogCalls, storeCalls, resp,
                   rpos, bodyClosed, out, sinkBroken, block, emitted,
                   hdrReads, ioOps, failed, tmp, stdin, fileOpen, codecVars>>

\* part_002 lines 134-139 (main.go 108-113, part_001 104-109): the path check
MatchPath ==
    /\ pc = "match"
    /\ IF ~trackRe(path)
       THEN /\ errs' = Append(errs, 404)
            /\ status' = WriteHeader(404)
            /\ ctype' = "text/plain"
            /\ pc' = "done"
       ELSE /\ pc' = "lookup"
            /\ UNCHANGED <<errs, status, ctype>>
    /\ UNCHANGED <<variant, method, path, track, lookup, catalogCalls, storeCalls, resp,
                   rpos, bodyClosed, out, sinkBroken, block, emitted,
                   hdrReads, ioOps, failed, tmp, stdin, fileOpen, codecVars>>

\* part_002 lines 141-149 (main.go 115-123, part_001 111-119): the catalog
\* lookup and the handler's answer to its error
LookupTrack ==
    /\ pc = "lookup"
    /\ \E reply \in CatalogReplies :
         LET r == loadTrackInfo(reply)
         IN  /\ catalogCalls' = catalogCalls + r.calls
             /\ lookup' = reply
             /\ CASE r.err = "TrackNotFoundError" ->
                       /\ errs' = Append(errs, 404)
                       /\ status' = WriteHeader(404)
                       /\ ctype' = "text/plain"
                       /\ pc' = "done"
                       /\ track' = track
                  [] r.err \in {"TrackFetchError", "error"} ->
                       /\ errs' = Append(errs, 500)
                       /\ status' = WriteHeader(500)
                       /\ ctype' = "text/plain"
                       /\ pc' = "done"
                       /\ track' = track
                  [] OTHER ->
                       /\ track' = r.data
                       /\ pc' = "fetch"
                       /\ UNCHANGED <<errs, status, ctype>>
    /\ UNCHANGED <<variant, method, path, storeCalls, resp, rpos, bodyClosed,
                   out, sinkBroken, block, emitted, hdrReads, ioOps,
                   failed, tmp, stdin, fileOpen, codecVars>>

\* http.Get of the object and the check of its result.
\* main.go lines 125-131 return after the error response; part_001 lines
\* 121-126 and part_002 lines 151-156 do not, and go on to
\* defer resp.Body.Close(), which dereferences resp: nil when Get failed.
FetchObject ==
    /\ pc = "fetch"
    /\ \E reply \in StoreReplies :
         LET bad == reply.err \/ reply.code # 200
         IN  /\ storeCalls' = storeCalls + 1
             /\ errs' = IF bad THEN Append(errs, 500) ELSE errs
             /\ status' = IF bad THEN WriteHeader(500) ELSE status
             /\ ctype' = IF bad THEN "text/plain" ELSE ctype
             /\ resp' = reply
             /\ pc' = IF variant = "tempfile"
                      THEN (IF bad THEN "done" ELSE "mktemp")
                      ELSE (IF reply.err THEN "panic" ELSE "magic")
    /\ UNCHANGED <<variant, method, path, track, lookup, catalogCalls, rpos, bodyClosed,
                   out, sinkBroken, block, emitted, hdrReads, ioOps,
                   failed, tmp, stdin, fileOpen, codecVars>>

-----------------------------------------------------------------------------
(* trackHandler of part_000 ("stub") *)

\* part_000 lines 17-22: the path check; there is no method check before it
StubMatchPath ==
    /\ variant = "stub"
    /\ pc = "start"
    /\ IF ~trackRe(path)
       THEN /\ errs' = Append(errs, 404)
            /\ status' = WriteHeader(404)
            /\ ctype' = "text/plain"
            /\ pc' = "done"
       ELSE /\ pc' = "stubget"
            /\ UNCHANGED <<errs, status, ctype>>
    /\ UNCHANGED <<variant, method, path, track, lookup, catalogCalls, storeCalls, resp,
                   rpos, bodyClosed, out, sinkBroken, block, emitted,
                   hdrReads, ioOps, failed, tmp, stdin, fileOpen, codecVars>>

\* part_000 lines 25-43: one request to the catalog, without a login.  When it
\* fails the handler answers 500 (line 27); when it is answered, with whatever
\* status, decoder.Decode(nil) returns an error, for the body or for the nil
\* target, and the handler answers 500 (line 37).  Line 42 is never reached.
StubLookup ==
    /\ pc = "stubget"
    /\ \E reply \in {r \in CatalogReplies : r.kind # "loginErr"} :
         lookup' = reply
    /\ catalogCalls' = catalogCalls + 1
    /\ errs' = Append(errs, 500)
    /\ status' = WriteHeader(500)
    /\ ctype' = "text/plain"
    /\ pc' = "done"
    /\ UNCHANGED <<variant, method, path, track, storeCalls, resp, rpos, bodyClosed,
                   out, sinkBroken, block, emitted, hdrReads, ioOps,
                   failed, tmp, stdin, fileOpen, codecVars>>

-----------------------------------------------------------------------------
(* trackHandler of part_001 ("copy") and part_002 ("walker") *)

\* a signature check that accepts whatever 4 bytes it read
MagicAny(got) == TRUE

\* part_002 line 163: bytes.Equal(fileMagic[:], magic)
MagicOK(got) == got = Magic

\* part_002 lines 158-167: io.ReadFull of the signature and its comparison
ReadMagic ==
    /\ pc = "magic"
    /\ \E mode \in {"ok", "rerr"} :
         LET n    == IF mode = "rerr" THEN 0 ELSE Min(4, Remaining)
             got  == SubSeq(resp.body, rpos + 1, rpos + n)
             good == n = 4 /\ MagicOK(got)
         IN  /\ rpos' = rpos + n
             /\ ioOps' = Append(ioOps, "r")
             /\ IF good
                THEN /\ pc' = "wmagic"
                     /\ UNCHANGED <<errs, status, ctype, bodyClosed, failed>>
                ELSE /\ errs' = Append(errs, 500)
                     /\ status' = WriteHeader(500)
                     /\ ctype' = IF status = 0 THEN "text/plain" ELSE ctype
                     /\ failed' = (failed \/ n < 4)
                     /\ bodyClosed' = TRUE
                     /\ pc' = "done"
    /\ UNCHANGED <<variant, method, path, track, lookup, catalogCalls, storeCalls, resp,
                   out, sinkBroken, block, emitted, hdrReads, tmp, stdin,
                   fileOpen, codecVars>>

\* part_002 lines 171-174: the Content-Type header and the signature; a failed
\* write is logged (part_001 line 142 drops it) and the handler goes on
WriteMagic ==
    /\ pc = "wmagic"
    /\ \E ok \in BOOLEAN :
         /\ ok => ~sinkBroken
         /\ ctype' = IF status = 0 THEN "audio/flac" ELSE ctype
         /\ status' = WriteHeader(200)
         /\ out' = IF ok THEN out \o Magic ELSE out
         /\ sinkBroken' = ~ok
         /\ failed' = (failed \/ ~ok)
         /\ ioOps' = Append(ioOps, "w")
         /\ pc' = "streaminfo"
    /\ UNCHANGED <<variant, method, path, track, lookup, catalogCalls, storeCalls, resp,
                   rpos, bodyClosed, errs, block, emitted, hdrReads, tmp, stdin,
                   fileOpen, codecVars>>

\* part_002 lines 179-182: io.CopyN of the STREAMINFO header and body
CopyStreamInfo ==
    /\ pc = "streaminfo"
    /\ \E mode \in CopyModes(StreamInfoLen) :
         LET c == CopyN(StreamInfoLen, mode)
         IN  /\ rpos' = c.rpos
             /\ out' = c.out
             /\ sinkBroken' = c.broken
             /\ ioOps' = ioOps \o c.ops
             /\ failed' = (failed \/ c.err)
             /\ emitted' = IF Len(c.out) >= Len(out) + 4
                           THEN Append(emitted,
                                  parseBlockHeader(SubSeq(c.out, Len(out) + 1, Len(out) + 4)))
                           ELSE emitted
             /\ IF c.err
                THEN pc' = "done" /\ bodyClosed' = TRUE
                ELSE pc' = (IF variant = "walker" THEN "header" ELSE "frames")
                     /\ UNCHANGED bodyClosed
    /\ UNCHANGED <<variant, method, path, track, lookup, catalogCalls, storeCalls, resp,
                   status, ctype, errs, block, hdrReads, tmp, stdin, fileOpen,
                   codecVars>>

\* part_002 lines 185-189: parseBlockHeader(resp.Body); the bit reader takes
\* the 4 bytes one at a time and fails when the source ends before the 32nd bit
ParseHeader ==
    /\ pc = "header"
    /\ \E mode \in {"ok", "rerr"} :
         LET n == IF mode = "rerr" THEN 0 ELSE Min(4, Remaining)
         IN  /\ rpos' = rpos + n
             /\ ioOps' = Append(ioOps, "r")
             /\ hdrReads' = Append(hdrReads, rpos)
             /\ IF n = 4
                THEN /\ block' = parseBlockHeader(SubSeq(resp.body, rpos + 1, rpos + 4))
                     /\ pc' = "whdr"
                     /\ UNCHANGED <<failed, bodyClosed>>
                ELSE /\ failed' = TRUE
                     /\ bodyClosed' = TRUE
                     /\ pc' = "done"
                     /\ UNCHANGED block
    /\ UNCHANGED <<variant, method, path, track, lookup, catalogCalls, storeCalls, resp,
                   status, ctype, errs, out, sinkBroken, emitted, tmp, stdin,
                   fileOpen, codecVars>>

\* part_002 lines 194-197: w.Write(block.Marshal())
WriteBlockHeader ==
    /\ pc = "whdr"
    /\ \E ok \in BOOLEAN :
         /\ ok => ~sinkBroken
         /\ ioOps' = Append(ioOps, "w")
         /\ status' = WriteHeader(200)
         /\ IF ok
            THEN /\ out' = out \o Marshal(block)
                 /\ emitted' = Append(emitted, block)
                 /\ pc' = "body"
                 /\ UNCHANGED <<sinkBroken, failed, bodyClosed>>
            ELSE /\ sinkBroken' = TRUE
                 /\ failed' = TRUE
                 /\ bodyClosed' = TRUE
                 /\ pc' = "done"
                 /\ UNCHANGED <<out, emitted>>
    /\ UNCHANGED <<variant, method, path, track, lookup, catalogCalls, storeCalls, resp,
                   rpos, ctype, errs, block, hdrReads, tmp, stdin, fileOpen,
                   codecVars>>

\* part_002 lines 199-206: io.CopyN of the block body, then the loop's exit test
CopyBody ==
    /\ pc = "body"
    /\ \E mode \in CopyModes(block.Length) :
         LET c == CopyN(block.Length, mode)
         IN  /\ rpos' = c.rpos
             /\ out' = c.out
             /\ sinkBroken' = c.broken
             /\ ioOps' = ioOps \o c.ops
             /\ failed' = (failed \/ c.err)
             /\ IF c.err
                THEN pc' = "done" /\ bodyClosed' = TRUE
                ELSE pc' = (IF block.LastBlock THEN "frames" ELSE "header")
                     /\ UNCHANGED bodyClosed
    /\ UNCHANGED <<variant, method, path, track, lookup, catalogCalls, storeCalls, resp,
                   status, ctype, errs, block, emitted, hdrReads, tmp, stdin,
                   fileOpen, codecVars>>

\* part_002 lines 229-232: io.Copy of the rest, then the deferred Close
CopyFrames ==
    /\ pc = "frames"
    /\ \E mode \in CopyModes(-1) :
         LET c == CopyN(-1, mode)
         IN  /\ rpos' = c.rpos
             /\ out' = c.out
             /\ sinkBroken' = c.broken
             /\ ioOps' = ioOps \o c.ops
             /\ failed' = (failed \/ c.err)
             /\ bodyClosed' = TRUE
             /\ pc' = "done"
    /\ UNCHANGED <<variant, method, path, track, lookup, catalogCalls, storeCalls, resp,
                   status, ctype, errs, block, emitted, hdrReads, tmp, stdin,
                   fileOpen, codecVars>>

-----------------------------------------------------------------------------
(* A FLAC reader and a Vorbis-comment reader: how a decoder (metaflac, a     *)
(* player, a test that re-parses the output) sees a byte stream.             *)

DecodeHeader(b) ==
    [LastBlock |-> b[1] >= 128, Type |-> b[1] % 128,
     Length |-> b[2] * 65536 + b[3] * 256 + b[4]]

\* the metadata blocks of s up to and including the first one flagged last
RECURSIVE ReadBlocks(_, _)
ReadBlocks(s, acc) ==
    IF Len(s) < 4
    THEN [ok |-> FALSE, blocks |-> acc, rest |-> s]
    ELSE LET hd == DecodeHeader(SubSeq(s, 1, 4))
         IN  IF Len(s) < 4 + hd.Length
             THEN [ok |-> FALSE, blocks |-> acc, rest |-> s]
             ELSE LET b == [hdr |-> hd, body |-> SubSeq(s, 5, 4 + hd.Length)]
                  IN  IF hd.LastBlock
                      THEN [ok |-> TRUE, blocks |-> Append(acc, b),
                            rest |-> Drop(s, 4 + hd.Length)]
                      ELSE ReadBlocks(Drop(s, 4 + hd.Length), Append(acc, b))

\* signature, STREAMINFO first, metadata blocks, then the frames
ParseFlac(s) ==
    IF Len(s) < 4 \/ Take(s, 4) # Magic
    THEN [ok |-> FALSE, blocks |-> <<>>, rest |-> s]
    ELSE LET r == ReadBlocks(Drop(s, 4), <<>>)
         IN  IF r.ok /\ r.blocks[1].hdr.Type = 0
                     /\ r.blocks[1].hdr.Length = StreamInfoLen - 4
             THEN r
             ELSE [ok |-> FALSE, blocks |-> r.blocks, rest |-> r.rest]

UnLE32(b) == b[1] + b[2] * 256 + b[3] * 65536 + b[4] * 16777216

RECURSIVE ReadEntries(_, _, _)
ReadEntries(s, n, acc) ==
    IF n = 0
    THEN [ok |-> s = <<>>, entries |-> acc]
    ELSE IF Len(s) < 4 \/ Len(s) < 4 + UnLE32(s)
         THEN [ok |-> FALSE, entries |-> acc]
         ELSE ReadEntries(Drop(s, 4 + UnLE32(s)), n - 1,
                          Append(acc, SubSeq(s, 5, 4 + UnLE32(s))))

\* the vendor string and the entries of a VORBIS_COMMENT body
ParseTags(body) ==
    IF Len(body) < 4 \/ Len(body) < 8 + UnLE32(body)
    THEN [ok |-> FALSE, vendor |-> <<>>, entries |-> <<>>]
    ELSE LET vlen == UnLE32(body)
             r    == ReadEntries(Drop(body, 8 + vlen), UnLE32(Drop(body, 4 + vlen)), <<>>)
         IN  [ok |-> r.ok, vendor |-> SubSeq(body, 5, 4 + vlen), entries |-> r.entries]

Upper(c) == IF c \in 97..122 THEN c - 32 ELSE c

UpperSeq(s) == [i \in 1..Len(s) |-> Upper(s[i])]

HasEq(e) == \E i \in 1..Len(e) : e[i] = 61

EqAt(e) == CHOOSE i \in 1..Len(e) : e[i] = 61 /\ \A j \in 1..(i - 1) : e[j] # 61

\* the field name of an entry NAME=VALUE
KeyOf(e) == IF HasEq(e) THEN SubSeq(e, 1, EqAt(e) - 1) ELSE e

ValueOf(e) == IF HasEq(e) THEN Drop(e, EqAt(e)) ELSE <<>>

SameKey(a, b) == UpperSeq(a) = UpperSeq(b)

RECURSIVE Filter(_, _)
Filter(es, keys) ==
    IF es = <<>> THEN <<>>
    ELSE IF HasEq(Head(es)) /\ \E k \in keys : SameKey(KeyOf(Head(es)), k)
         THEN Filter(Tail(es), keys)
         ELSE <<Head(es)>> \o Filter(Tail(es), keys)

\* index of the first block of the given type, 0 if there is none
FirstOfType(blocks, t) ==
    IF \E i \in 1..Len(blocks) : blocks[i].hdr.Type = t
    THEN CHOOSE i \in 1..Len(blocks) :
           blocks[i].hdr.Type = t /\ \A j \in 1..(i - 1) : blocks[j].hdr.Type # t
    ELSE 0

Serialize(blocks, rest) ==
    Magic \o Flatten([i \in 1..Len(blocks) |->
                Blk(blocks[i].hdr.LastBlock, blocks[i].hdr.Type, blocks[i].body)])
          \o rest

-----------------------------------------------------------------------------
(* trackHandler of main.go ("tempfile"): lines 133-169 *)

\* line 154: fmt.Sprintf("ARTIST=%s\nTITLE=%s\nALBUM=dmca test\nLABEL=dmca test\n", ...)
Sprintf(t) ==
    ARTIST \o EQ \o t.Artist \o NL \o TITLE \o EQ \o t.Title \o NL
        \o ALBUM \o EQ \o DmcaTest \o NL \o LABEL \o EQ \o DmcaTest \o NL

\* line 152: the tags metaflac is told to remove
RemoveTags == {ARTIST, TITLE, ALBUM, LABEL}

\* the lines of the tool's standard input (each ends with a newline)
RECURSIVE SplitLines(_, _)
SplitLines(s, cur) ==
    IF s = <<>> THEN (IF cur = <<>> THEN <<>> ELSE <<cur>>)
    ELSE IF Head(s) = 10 THEN <<cur>> \o SplitLines(Tail(s), <<>>)
         ELSE SplitLines(Tail(s), Append(cur, Head(s)))

\* the vendor string libFLAC gives a VORBIS_COMMENT block it creates is that
\* of the library the tool was built with: "reference libFLAC 1.3.2 20170101"
\* or "reference libFLAC 1.4.3 20230623", for two releases
ReferenceLibFLAC == <<114, 101, 102, 101, 114, 101, 110, 99, 101, 32, 108, 105, 98, 70, 76, 65, 67, 32>>

MetaflacVendors ==
    { ReferenceLibFLAC \o <<49, 46, 51, 46, 50, 32, 50, 48, 49, 55, 48, 49, 48, 49>>,
      ReferenceLibFLAC \o <<49, 46, 52, 46, 51, 32, 50, 48, 50, 51, 48, 54, 50, 51>> }

\* a metadata block as the library holds it; the flag is set when it is written
NewBlock(type, body) ==
    [hdr |-> [LastBlock |-> FALSE, Type |-> type, Length |-> Len(body)], body |-> body]

\* a PADDING block: n zero bytes
Padding(n) == NewBlock(1, Rep(0, n))

\* the library can read the block: STREAMINFO has 34 bytes, APPLICATION holds
\* at least its 4-byte id, SEEKTABLE holds whole 18-byte points, VORBIS_COMMENT
\* parses to its end, type 127 is refused; PADDING and the types the library
\* does not know are read as they are.  (CUESHEET and PICTURE: the objects
\* of this model hold none that is well-formed.)
Readable(b) ==
    CASE b.hdr.Type = 0 -> b.hdr.Length = StreamInfoLen - 4
      [] b.hdr.Type = 2 -> b.hdr.Length >= 4
      [] b.hdr.Type = 3 -> b.hdr.Length % 18 = 0
      [] b.hdr.Type = 4 -> ParseTags(b.body).ok
      [] b.hdr.Type \in {5, 6, 127} -> FALSE
      [] OTHER -> TRUE

\* a line of --import-tags-from: NAME=VALUE, the name of characters 0x20-0x7d
LegalLine(l) ==
    /\ HasEq(l)
    /\ \A j \in 1..Len(KeyOf(l)) : KeyOf(l)[j] \in 32..125

\* the bytes the metadata blocks take in the file, headers included
RECURSIVE ChainLength(_)
ChainLength(chain) ==
    IF chain = <<>> THEN 0
    ELSE 4 + Len(Head(chain).body) + ChainLength(Tail(chain))

\* FLAC__metadata_chain_sort_padding, which the tool calls before it writes
\* (it is run without --dont-use-padding): the PADDING blocks move to the end
\* and merge into one, which also covers the headers of the others
SortPadding(chain) ==
    LET pads == SelectSeq(chain, LAMBDA b : b.hdr.Type = 1)
        rest == SelectSeq(chain, LAMBDA b : b.hdr.Type # 1)
    IN  IF pads = <<>> THEN chain
        ELSE rest \o <<Padding(ChainLength(pads) - 4)>>

\* FLAC__metadata_chain_write with use_padding: metadata that shrank grows the
\* PADDING block at the end, or gets a new one when 4 bytes or more are free;
\* metadata that grew takes the bytes from the PADDING block at the end, when
\* it has that many, and drops the block when it fits with its header exactly.
\* Otherwise the blocks are written as they are and the file changes its size.
PrepareForWrite(chain, initial) ==
    LET cur  == ChainLength(chain)
        n    == Len(chain)
        pad  == chain[n].hdr.Type = 1
        plen == Len(chain[n].body)
    IN  CASE cur < initial /\ pad ->
               [chain EXCEPT ![n] = Padding(plen + initial - cur)]
          [] cur + 4 <= initial /\ ~pad ->
               Append(chain, Padding(initial - 4 - cur))
          [] cur > initial /\ pad /\ plen + 4 = cur - initial ->
               SubSeq(chain, 1, n - 1)
          [] cur > initial /\ pad /\ plen >= cur - initial ->
               [chain EXCEPT ![n] = Padding(plen - (cur - initial))]
          [] OTHER -> chain

\* the blocks as they are written: the last one, and only it, carries the flag
SetLast(chain) ==
    [k \in 1..Len(chain) |-> [chain[k] EXCEPT !.hdr.LastBlock = (k = Len(chain))]]

\* metaflac --remove-tag=ARTIST --remove-tag=TITLE --remove-tag=ALBUM
\*          --remove-tag=LABEL --import-tags-from=- FILE   (line 152)
\* as the tool documents it: the file must be a FLAC file whose metadata the
\* library can read; --remove-tag drops every entry with that field name,
\* compared without case, from the first VORBIS_COMMENT block;
\* --import-tags-from adds one entry per input line; a file without a
\* VORBIS_COMMENT block gets one after its last block, with the library's
\* vendor string.  Then the padding is sorted and used, and the file written.
Metaflac(file, input, vendor) ==
    LET p     == ParseFlac(file)
        lines == SplitLines(input, <<>>)
        i     == FirstOfType(p.blocks, 4)
        old   == IF i = 0 THEN [ok |-> TRUE, vendor |-> vendor, entries |-> <<>>]
                 ELSE ParseTags(p.blocks[i].body)
        tags  == NewBlock(4, TagsBody(old.vendor, Filter(old.entries, RemoveTags) \o lines))
        blks  == IF i = 0 THEN Append(p.blocks, tags) ELSE [p.blocks EXCEPT ![i] = tags]
        chain == PrepareForWrite(SortPadding(blks), ChainLength(p.blocks))
    IN  IF ~p.ok \/ (\E k \in 1..Len(p.blocks) : ~Readable(p.blocks[k]))
              \/ (\E k \in 1..Len(lines) : ~LegalLine(lines[k]))
        THEN [ok |-> FALSE, content |-> file]
        ELSE [ok |-> TRUE, content |-> Serialize(SetLast(chain), p.rest)]

\* a handler without the deferred os.Remove
NotRemoved(t) == t

\* the deferred calls that run when the handler returns after line 139:
\* os.Remove(tmpf.Name()) and resp.Body.Close()
Removed(t) == [t EXCEPT !.removed = TRUE]

\* lines 133-139: ioutil.TempFile
CreateTemp ==
    /\ pc = "mktemp"
    /\ \E ok \in BOOLEAN :
         IF ok
         THEN /\ tmp' = [NoTmp EXCEPT !.exists = TRUE]
              /\ pc' = "download"
              /\ UNCHANGED <<errs, status, ctype, bodyClosed>>
         ELSE /\ errs' = Append(errs, 500)
              /\ status' = WriteHeader(500)
              /\ ctype' = "text/plain"
              /\ bodyClosed' = TRUE
              /\ pc' = "done"
              /\ UNCHANGED tmp
    /\ UNCHANGED <<variant, method, path, track, lookup, catalogCalls, storeCalls, resp,
                   rpos, out, sinkBroken, block, emitted, hdrReads, ioOps,
                   failed, stdin, fileOpen, codecVars>>

\* lines 141-145: io.Copy(tmpf, resp.Body); "werr" is a failed write to the file
Download ==
    /\ pc = "download"
    /\ \E mode \in {"ok", "rerr", "werr"} :
         /\ (mode = "werr") => Remaining > 0
         /\ ioOps' = Append(ioOps, "r")
         /\ rpos' = IF mode = "rerr" THEN rpos ELSE Len(resp.body)
         /\ IF mode = "ok"
            THEN /\ tmp' = [tmp EXCEPT !.content = resp.body, !.complete = TRUE]
                 /\ pc' = "close"
                 /\ UNCHANGED <<errs, status, ctype, bodyClosed, failed>>
            ELSE /\ errs' = Append(errs, 500)
                 /\ status' = WriteHeader(500)
                 /\ ctype' = "text/plain"
                 /\ failed' = TRUE
                 /\ tmp' = Removed(tmp)
                 /\ bodyClosed' = TRUE
                 /\ pc' = "done"
    /\ UNCHANGED <<variant, method, path, track, lookup, catalogCalls, storeCalls, resp,
                   out, sinkBroken, block, emitted, hdrReads, stdin, fileOpen,
                   codecVars>>

\* lines 146-150: tmpf.Close()
CloseTemp ==
    /\ pc = "close"
    /\ \E ok \in BOOLEAN :
         IF ok
         THEN /\ tmp' = [tmp EXCEPT !.closed = TRUE]
              /\ pc' = "metaflac"
              /\ UNCHANGED <<errs, status, ctype, bodyClosed>>
         ELSE /\ errs' = Append(errs, 500)
              /\ status' = WriteHeader(500)
              /\ ctype' = "text/plain"
              /\ tmp' = Removed(tmp)
              /\ bodyClosed' = TRUE
              /\ pc' = "done"
    /\ UNCHANGED <<variant, method, path, track, lookup, catalogCalls, storeCalls, resp,
                   rpos, out, sinkBroken, block, emitted, hdrReads, ioOps,
                   failed, stdin, fileOpen, codecVars>>

\* lines 152-159: cmd.Run() of metaflac with the tags on its standard input;
\* the tool may also fail to start
RunMetaflac ==
    /\ pc = "metaflac"
    /\ stdin' = Sprintf(track)
    /\ \E started \in BOOLEAN, vendor \in MetaflacVendors :
         LET m == Metaflac(tmp.content, Sprintf(track), vendor)
         IN  IF started /\ m.ok
             THEN /\ tmp' = [tmp EXCEPT !.content = m.content, !.tagged = TRUE]
                  /\ pc' = "open"
                  /\ UNCHANGED <<errs, status, ctype, bodyClosed>>
             ELSE /\ errs' = Append(errs, 500)
                  /\ status' = WriteHeader(500)
                  /\ ctype' = "text/plain"
                  /\ tmp' = Removed(tmp)
                  /\ bodyClosed' = TRUE
                  /\ pc' = "done"
    /\ UNCHANGED <<variant, method, path, track, lookup, catalogCalls, storeCalls, resp,
                   rpos, out, sinkBroken, block, emitted, hdrReads, ioOps,
                   failed, fileOpen, codecVars>>

\* lines 161-167: os.Open(tmpf.Name())
Reopen ==
    /\ pc = "open"
    /\ \E ok \in BOOLEAN :
         IF ok
         THEN /\ fileOpen' = TRUE
              /\ pc' = "serve"
              /\ UNCHANGED <<errs, status, ctype, bodyClosed, tmp>>
         ELSE /\ errs' = Append(errs, 500)
              /\ status' = WriteHeader(500)
              /\ ctype' = "text/plain"
              /\ tmp' = Removed(tmp)
              /\ bodyClosed' = TRUE
              /\ pc' = "done"
              /\ UNCHANGED fileOpen
    /\ UNCHANGED <<variant, method, path, track, lookup, catalogCalls, storeCalls, resp,
                   rpos, out, sinkBroken, block, emitted, hdrReads, ioOps,
                   failed, stdin, codecVars>>

\* the Content-Type http.ServeContent derives from the name "<id>.flac": the
\* host's MIME table decides, and content sniffing when it has no entry
ServeTypes == {"audio/flac", "audio/x-flac", "application/octet-stream"}

\* line 169: http.ServeContent of the whole file (a plain GET: no Range and no
\* conditional headers), then the deferred f.Close(), os.Remove, Body.Close()
ServeContent ==
    /\ pc = "serve"
    /\ \E ok \in BOOLEAN, ct \in ServeTypes :
         /\ status' = WriteHeader(200)
         /\ ctype' = ct
         /\ ioOps' = Append(ioOps, "w")
         /\ out' = IF ok THEN out \o tmp.content ELSE out
         /\ sinkBroken' = ~ok
         /\ failed' = (failed \/ ~ok)
    /\ fileOpen' = FALSE
    /\ tmp' = Removed(tmp)
    /\ bodyClosed' = TRUE
    /\ pc' = "done"
    /\ UNCHANGED <<variant, method, path, track, lookup, catalogCalls, storeCalls, resp,
                   rpos, errs, block, emitted, hdrReads, stdin, codecVars>>

-----------------------------------------------------------------------------
(* One request *)

Init ==
    /\ variant \in Variants
    /\ method \in Methods
    /\ path \in Paths
    /\ pc = "start"
    /\ track = NoTrack
    /\ lookup = NoLookup
    /\ catalogCalls = 0
    /\ storeCalls = 0
    /\ resp = NoResp
    /\ rpos = 0
    /\ bodyClosed = FALSE
    /\ status = 0
    /\ ctype = ""
    /\ errs = <<>>
    /\ out = <<>>
    /\ sinkBroken = FALSE
    /\ block = NoBlock
    /\ emitted = <<>>
    /\ hdrReads = <<>>
    /\ ioOps = <<>>
    /\ failed = FALSE
    /\ tmp = NoTmp
    /\ stdin = <<>>
    /\ fileOpen = FALSE
    /\ h = NoBlock
    /\ packed = <<>>
    /\ reparsed = NoBlock

Next ==
    \/ StubMatchPath
    \/ StubLookup
    \/ CheckMethod
    \/ MatchPath
    \/ LookupTrack
    \/ FetchObject
    \/ ReadMagic
    \/ WriteMagic
    \/ CopyStreamInfo
    \/ ParseHeader
    \/ WriteBlockHeader
    \/ CopyBody
    \/ CopyFrames
    \/ CreateTemp
    \/ Download
    \/ CloseTemp
    \/ RunMetaflac
    \/ Reopen
    \/ ServeContent

Spec == Init /\ [][Next]_vars

\* the handler's goroutine keeps running until it returns
SpecLive == Spec /\ WF_vars(Next)

-----------------------------------------------------------------------------
(* The header codec on its own: Marshal, then parseBlockHeader *)

\* the widths of the type and length fields, part_002 line 65
TypeBits == 7

LengthBits == 24

Types == 0..(2 ^ TypeBits - 1)

Lengths == {0, 1, 255, 256, 257, 65535, 65536, 11259375,
            2 ^ LengthBits - 2, 2 ^ LengthBits - 1}

\* 4-byte sequences as the walker reads them
Quads ==
    { <<a, b, c, d>> : a \in {0, 1, 4, 127, 128, 129, 132, 255},
                       b \in {0, 1, 128, 255}, c \in {0, 1, 128, 255},
                       d \in {0, 1, 128, 255} }

\* either a header to encode and decode again, or 4 bytes to decode and
\* encode again
InitCodec ==
    /\ \/ /\ h \in [LastBlock : BOOLEAN, Type : Types, Length : Lengths]
          /\ packed = <<>>
          /\ pc = "marshal"
       \/ /\ h = NoBlock
          /\ packed \in Quads
          /\ pc = "decode"
    /\ reparsed = NoBlock
    /\ variant = "walker"
    /\ method = "GET"
    /\ path = <<>>
    /\ track = NoTrack
    /\ lookup = NoLookup
    /\ catalogCalls = 0
    /\ storeCalls = 0
    /\ resp = NoResp
    /\ rpos = 0
    /\ bodyClosed = FALSE
    /\ status = 0
    /\ ctype = ""
    /\ errs = <<>>
    /\ out = <<>>
    /\ sinkBroken = FALSE
    /\ block = NoBlock
    /\ emitted = <<>>
    /\ hdrReads = <<>>
    /\ ioOps = <<>>
    /\ failed = FALSE
    /\ tmp = NoTmp
    /\ stdin = <<>>
    /\ fileOpen = FALSE

CodecMarshal ==
    /\ pc = "marshal"
    /\ packed' = Marshal(h)
    /\ pc' = "parse"
    /\ UNCHANGED <<h, reparsed, variant, method, path, track, lookup, catalogCalls,
                   storeCalls, resp, rpos, bodyClosed, status, ctype, errs, out,
                   sinkBroken, block, emitted, hdrReads, ioOps, failed, tmp,
                   stdin, fileOpen>>

CodecParse ==
    /\ pc = "parse"
    /\ reparsed' = parseBlockHeader(packed)
    /\ pc' = "parsed"
    /\ UNCHANGED <<h, packed, variant, method, path, track, lookup, catalogCalls,
                   storeCalls, resp, rpos, bodyClosed, status, ctype, errs, out,
                   sinkBroken, block, emitted, hdrReads, ioOps, failed, tmp,
                   stdin, fileOpen>>

\* part_002 line 185: block, err := parseBlockHeader(resp.Body)
CodecDecode ==
    /\ pc = "decode"
    /\ h' = parseBlockHeader(packed)
    /\ pc' = "encode"
    /\ UNCHANGED <<packed, reparsed, variant, method, path, track, lookup,
                   catalogCalls, storeCalls, resp, rpos, bodyClosed, status,
                   ctype, errs, out, sinkBroken, block, emitted, hdrReads,
                   ioOps, failed, tmp, stdin, fileOpen>>

\* part_002 line 194: w.Write(block.Marshal())
CodecEncode ==
    /\ pc = "encode"
    /\ out' = Marshal(h)
    /\ pc' = "encoded"
    /\ UNCHANGED <<h, packed, reparsed, variant, method, path, track, lookup,
                   catalogCalls, storeCalls, resp, rpos, bodyClosed, status,
                   ctype, errs, sinkBroken, block, emitted, hdrReads, ioOps,
                   failed, tmp, stdin, fileOpen>>

NextCodec == CodecMarshal \/ CodecParse \/ CodecDecode \/ CodecEncode

SpecCodec == InitCodec /\ [][NextCodec]_vars

-----------------------------------------------------------------------------
(* What the claims speak of *)

\* the object store answered 200 and the handler returned with no failure and
\* no error response: the request was served
Served == pc = "done" /\ ~failed /\ errs = <<>> /\ storeCalls = 1

In == ParseFlac(resp.body)

Out == ParseFlac(out)

TagsAt(p) == FirstOfType(p.blocks, 4)

\* the RewritePlan of the request: the protected keys and their values, in
\* the order of main.go line 154
Plan == << <<ARTIST, track.Artist>>, <<TITLE, track.Title>>,
           <<ALBUM, DmcaTest>>, <<LABEL, DmcaTest>> >>

PlanKeys == {Plan[i][1] : i \in 1..Len(Plan)}

\* the rewrite of section 4.3: drop every entry whose key is a plan key,
\* then append one entry per plan key
RewriteEntries(entries) ==
    Filter(entries, PlanKeys) \o [i \in 1..Len(Plan) |-> Plan[i][1] \o EQ \o Plan[i][2]]

\* a valid container with metadata blocks after STREAMINFO, the last one flagged
ValidWithBlocks == In.ok /\ Len(In.blocks) >= 2

\* block k is the TAGS block or a PADDING block right after it
Rewritable(p, k) ==
    \/ p.blocks[k].hdr.Type = 4
    \/ k > 1 /\ p.blocks[k].hdr.Type = 1 /\ p.blocks[k - 1].hdr.Type = 4

-----------------------------------------------------------------------------
(* C1 *)

\* C1: for a valid container served by the walker, the bytes written to the
\* client parse into the same number of metadata blocks, of the same types and
\* flags and in the same order; every block that is neither the TAGS block nor
\* a PADDING block right after it has the header and body of the input; the
\* signature, STREAMINFO and the audio region are unchanged.
C1_PassThrough ==
    (variant = "walker" /\ Served /\ ValidWithBlocks) =>
        /\ Out.ok
        /\ Len(Out.blocks) = Len(In.blocks)
        /\ Take(out, 4 + StreamInfoLen) = Take(resp.body, 4 + StreamInfoLen)
        /\ Out.rest = In.rest
        /\ \A k \in 1..Len(In.blocks) :
             /\ Out.blocks[k].hdr.Type = In.blocks[k].hdr.Type
             /\ Out.blocks[k].hdr.LastBlock = In.blocks[k].hdr.LastBlock
             /\ ~Rewritable(In, k) => Out.blocks[k] = In.blocks[k]

\* a container with an opaque block, a TAGS block and a last block of type 127
\* has been walked to its end
C1_Witness ==
    /\ variant = "walker" /\ Served /\ ValidWithBlocks
    /\ Len(In.blocks) = 4
    /\ TagsAt(In) = 3
    /\ Len(out) > 4 + StreamInfoLen

-----------------------------------------------------------------------------
(* C2 *)

\* C2 (as claimed): for a valid container with a TAGS block, the tag entries
\* re-parsed from the output are the original entries without those whose key
\* is a plan key, followed by one entry per plan key with the plan's value.
C2_RewriteApplied ==
    (variant \in {"walker", "tempfile"} /\ Served /\ In.ok /\ TagsAt(In) > 0
       /\ ParseTags(In.blocks[TagsAt(In)].body).ok) =>
        /\ Out.ok
        /\ TagsAt(Out) > 0
        /\ ParseTags(Out.blocks[TagsAt(Out)].body).ok
        /\ ParseTags(Out.blocks[TagsAt(Out)].body).entries
             = RewriteEntries(ParseTags(In.blocks[TagsAt(In)].body).entries)

-----------------------------------------------------------------------------
(* C3 *)

\* C3 (as claimed): for a valid container without a TAGS block the walker's
\* output has one block more than the input: a TAGS block, flagged last, right
\* before the audio region; the block flagged last in the input is emitted
\* with the flag cleared.
C3_TagsSynthesized ==
    (variant = "walker" /\ Served /\ In.ok /\ TagsAt(In) = 0) =>
        /\ Out.ok
        /\ Len(Out.blocks) = Len(In.blocks) + 1
        /\ Out.blocks[Len(Out.blocks)].hdr.Type = 4
        /\ Out.blocks[Len(Out.blocks)].hdr.LastBlock
        /\ \A k \in 1..Len(In.blocks) : ~Out.blocks[k].hdr.LastBlock
        /\ Out.rest = In.rest

-----------------------------------------------------------------------------
(* C4 *)

\* the metadata blocks of the output that carry the lastBlock flag, as a
\* reader of the output finds them
Flagged == {i \in 1..Len(Out.blocks) : Out.blocks[i].hdr.LastBlock}

\* C4: when the walk over a valid container has completed, the output is a
\* container with as many metadata blocks as the input (STREAMINFO included);
\* exactly one of them carries the lastBlock flag, it is the last of them, and
\* the audio region of the input follows it directly.
C4_OneLastBlock ==
    (variant = "walker" /\ Served /\ In.ok) =>
        /\ Out.ok
        /\ Len(Out.blocks) = Len(In.blocks)
        /\ Flagged = {Len(Out.blocks)}
        /\ Out.rest = In.rest

\* the walk over a container whose only metadata block is a flagged
\* STREAMINFO, followed by the audio bytes 81 00 00 01 05 ff f8, has completed
C4_Witness ==
    /\ variant = "walker" /\ Served /\ In.ok
    /\ Len(In.blocks) = 1
    /\ In.blocks[1].hdr.LastBlock
    /\ Len(In.rest) = 7
    /\ out = resp.body

-----------------------------------------------------------------------------
(* C5 *)

\* C5: Marshal yields 4 bytes laid out as a 1-bit flag, a 7-bit type and a
\* 24-bit big-endian length, and parseBlockHeader gives back the header.
C5_HeaderRoundTrip ==
    (pc = "parsed") =>
        /\ Len(packed) = 4
        /\ \A i \in 1..4 : packed[i] \in 0..255
        /\ packed[1] = (IF h.LastBlock THEN 128 ELSE 0) + h.Type
        /\ packed[2] * 65536 + packed[3] * 256 + packed[4] = h.Length
        /\ reparsed = h

\* the header with every bit set has made the round trip
C5_Witness ==
    /\ pc = "parsed"
    /\ h.LastBlock /\ h.Type = 2 ^ TypeBits - 1 /\ h.Length = 2 ^ LengthBits - 1
    /\ packed = <<255, 255, 255, 255>>

-----------------------------------------------------------------------------
(* C6 *)

TmpTags == ParseTags(ParseFlac(tmp.content).blocks[TagsAt(ParseFlac(tmp.content))].body)

\* the tool run once more on the rewritten file, which has its TAGS block
Again == Metaflac(tmp.content, stdin, <<>>)

AgainTags ==
    LET again == ParseFlac(Again.content)
    IN  ParseTags(again.blocks[TagsAt(again)].body)

\* C6 (as claimed): once the tags of the temporary file have been rewritten,
\* rewriting them again with the same input leaves the same entries, and no
\* protected key occurs twice among them.
C6_Idempotent ==
    (variant = "tempfile" /\ tmp.tagged) =>
        /\ Again.ok
        /\ AgainTags.entries = TmpTags.entries
        /\ \A i, j \in 1..Len(TmpTags.entries) :
             (i # j /\ \E k \in PlanKeys : SameKey(KeyOf(TmpTags.entries[i]), k))
               => ~SameKey(KeyOf(TmpTags.entries[i]), KeyOf(TmpTags.entries[j]))

-----------------------------------------------------------------------------
(* C7 *)

\* the growth of the TAGS body under the rewrite of section 4.3
Delta ==
    LET t == ParseTags(In.blocks[TagsAt(In)].body)
    IN  Len(TagsBody(t.vendor, RewriteEntries(t.entries))) - Len(In.blocks[TagsAt(In)].body)

\* C7 (as claimed): when a PADDING block follows the TAGS block and the
\* rewrite changes the TAGS body by Delta bytes, with Delta <= 0 or Delta at
\* most the padding length, the PADDING block is emitted with length and
\* filler reduced by Delta and the header region keeps its size; otherwise
\* the PADDING block is forwarded unchanged.
C7_PaddingReconciled ==
    (variant = "walker" /\ Served /\ In.ok /\ TagsAt(In) > 0
       /\ TagsAt(In) < Len(In.blocks)
       /\ In.blocks[TagsAt(In) + 1].hdr.Type = 1
       /\ ParseTags(In.blocks[TagsAt(In)].body).ok) =>
        LET k   == TagsAt(In) + 1
            pad == In.blocks[k].hdr.Length
        IN  /\ Out.ok
            /\ Len(Out.blocks) = Len(In.blocks)
            /\ IF Delta <= pad
               THEN /\ Out.blocks[k].hdr.Length = pad - Delta
                    /\ Len(Out.blocks[k].body) = pad - Delta
                    /\ Len(Out.blocks[k - 1].body) = Len(In.blocks[k - 1].body) + Delta
                    /\ Len(out) = Len(resp.body)
               ELSE Out.blocks[k] = In.blocks[k]

-----------------------------------------------------------------------------
(* C8 *)

\* C8: in the handlers that look the track up with loadTrackInfo, a 404 from
\* the catalog is answered with 404, any other non-200 status with an error
\* status that is not 404; in both cases no track byte is written and the
\* object store is never contacted.
C8_CatalogNotFound ==
    (variant \in WithLookup /\ lookup.kind = "status" /\ lookup.code # 200) =>
        /\ pc = "done"
        /\ errs = <<IF lookup.code = 404 THEN 404 ELSE 500>>
        /\ status = (IF lookup.code = 404 THEN 404 ELSE 500)
        /\ out = <<>>
        /\ storeCalls = 0
        /\ resp = NoResp

\* the catalog has answered 404 to the lookup
C8_Witness ==
    /\ variant \in WithLookup
    /\ lookup.kind = "status" /\ lookup.code = 404
    /\ catalogCalls = 2
    /\ status = 404

-----------------------------------------------------------------------------
(* C9 *)

\* C9 (as claimed): in the handlers with a method check, a request that is
\* not a GET is answered 405, a GET whose path is not /track/<identifier>.flac
\* is answered 404, and neither reaches the catalog or the object store or
\* gets a track byte.
C9_RequestValidation ==
    (variant \in WithLookup) =>
    /\ (method # "GET" /\ pc # "start") =>
          /\ pc = "done" /\ errs = <<405>> /\ status = 405
          /\ catalogCalls = 0 /\ storeCalls = 0 /\ out = <<>>
    /\ (method = "GET" /\ ~ExactTrackPath(path) /\ pc \notin {"start", "match"}) =>
          /\ pc = "done" /\ errs = <<404>> /\ status = 404
          /\ catalogCalls = 0 /\ storeCalls = 0 /\ out = <<>>

-----------------------------------------------------------------------------
(* C10 *)

\* the object store was asked and the fetch failed or was not a 200
StoreFailed == storeCalls > 0 /\ (resp.err \/ resp.code # 200)

\* C10 (as claimed): after a failed object-store fetch the handler has sent
\* its one error response and returned: it has not dereferenced the missing
\* response, read the response body or written anything more.
C10_StoreFailureEndsRequest ==
    StoreFailed =>
        /\ pc = "done"
        /\ errs = <<500>>
        /\ status = 500
        /\ rpos = 0
        /\ ioOps = <<>>
        /\ out = <<>>

-----------------------------------------------------------------------------
(* C11 *)

\* C11 (as claimed): an error status is sent only while nothing has been sent
\* to the client yet: every call of http.Error or http.NotFound finds no
\* earlier error response, no status line and no track byte.
C11_OneStatus ==
    [][errs' # errs => (errs = <<>> /\ status = 0 /\ out = <<>>)]_vars

-----------------------------------------------------------------------------
(* C12 *)

\* C12 (as claimed): the walker rejects a block header of type 127: once it
\* has decoded one the walk has failed, and no header of type 127 is ever
\* written to the client.
C12_Type127Rejected ==
    (variant = "walker") =>
        /\ (hdrReads # <<>> /\ block.Type = 127) => (pc = "done" /\ failed)
        /\ \A i \in 2..Len(emitted) : emitted[i].Type # 127

-----------------------------------------------------------------------------
(* C13 *)

\* the source has its signature and a STREAMINFO block that is not flagged
\* last, and then ends inside a block: a header declares more bytes than are
\* left, or fewer than 4 bytes are left where a header begins
Truncated ==
    /\ Len(resp.body) >= 4 + StreamInfoLen
    /\ Take(resp.body, 4) = Magic
    /\ resp.body[5] < 128
    /\ ~ReadBlocks(Drop(resp.body, 4 + StreamInfoLen), <<>>).ok

\* the handler has returned after a 200 and without an error response, which
\* lets the server end the response as a complete one
CompletedOK == pc = "done" /\ status = 200 /\ errs = <<>>

\* C13 (as claimed): the walk over a truncated source ends as a failure and
\* the request is not completed as a successful response.
C13_NoSilentTruncation ==
    (variant = "walker" /\ storeCalls = 1 /\ resp.code = 200 /\ Truncated
       /\ pc = "done") =>
        /\ failed
        /\ ~CompletedOK

-----------------------------------------------------------------------------
(* C14 *)

\* the length of the longest metadata block a reader finds in s, header included
LongestBlock(s) ==
    LET bs == ReadBlocks(Drop(s, 4), <<>>).blocks
        ls == {4} \cup {4 + bs[i].hdr.Length : i \in 1..Len(bs)}
    IN  CHOOSE m \in ls : \A l \in ls : l <= m

\* C14 (as claimed): while a request for an object longer than its signature
\* and STREAMINFO runs without a failure, the bytes read from the object store
\* and not yet written to the client are at most one metadata block; the
\* object is never read to its end before the first response byte, and no
\* copy of the whole object is kept.
C14_NeverMaterialized ==
    (storeCalls = 1 /\ resp.code = 200 /\ ~failed
       /\ Len(resp.body) > 4 + StreamInfoLen) =>
        /\ rpos - Len(out) <= LongestBlock(resp.body)
        /\ out = <<>> => rpos < Len(resp.body)
        /\ Len(tmp.content) < Len(resp.body)

-----------------------------------------------------------------------------
(* C15 *)

\* C15 (as claimed): once a block flagged last has been emitted, STREAMINFO
\* included, the walker decodes no further header: a flagged header is the
\* last one emitted, and after a flagged STREAMINFO the walker is copying the
\* frames or has returned, without having decoded any header.
C15_StopAtLastBlock ==
    (variant = "walker") =>
        /\ \A i \in 1..(Len(emitted) - 1) : ~emitted[i].LastBlock
        /\ (emitted # <<>> /\ emitted[1].LastBlock) =>
              (pc \in {"frames", "done"} /\ hdrReads = <<>>)
        /\ (emitted # <<>> /\ emitted[Len(emitted)].LastBlock) =>
              pc \notin {"header", "whdr"}

-----------------------------------------------------------------------------
(* C16 *)

\* C16 (as claimed): after the first failed read or write the handler reads
\* nothing more from the source and writes nothing more to the client.
C16_FailureIsTerminal ==
    [][failed => (ioOps' = ioOps /\ rpos' = rpos /\ out' = out)]_vars

-----------------------------------------------------------------------------
(* C17 *)

\* the handler has read the signature and found it right
MagicMatched == rpos >= 4 /\ Take(resp.body, 4) = Magic

\* C17: in the streaming handlers the Content-Type audio/flac and the first
\* track byte are sent only after the signature has been read and found
\* right; when it cannot be read or is wrong the handler returns with an
\* error status and no track byte written.
C17_SignatureFirst ==
    (variant \in {"copy", "walker"}) =>
        /\ (out # <<>> \/ ctype = "audio/flac") => MagicMatched
        /\ pc \in {"wmagic", "streaminfo", "header", "whdr", "body", "frames"}
              => MagicMatched
        /\ (pc = "done" /\ storeCalls = 1 /\ ~resp.err /\ ~MagicMatched) =>
              /\ out = <<>>
              /\ status = 500
              /\ errs[Len(errs)] = 500
              /\ ctype = "text/plain"

\* an object that begins with another signature ("OggS") has been refused
C17_Witness ==
    /\ variant = "walker"
    /\ pc = "done"
    /\ resp.code = 200
    /\ Len(resp.body) >= 4 /\ Take(resp.body, 4) # Magic
    /\ rpos = 4
    /\ status = 500
    /\ out = <<>>

-----------------------------------------------------------------------------
(* C18 *)

\* C18: 4 bytes decoded by parseBlockHeader and encoded again by Marshal are
\* the same 4 bytes, and the decoded type and length are within their fields.
C18_PassThroughHeader ==
    (pc = "encoded") =>
        /\ out = packed
        /\ h.Type \in 0..(2 ^ TypeBits - 1)
        /\ h.Length \in 0..(2 ^ LengthBits - 1)

\* the bytes ff ff ff ff (flag set, type 127, length 2^24-1) have been
\* decoded and encoded again
C18_Witness ==
    /\ pc = "encoded"
    /\ packed = <<255, 255, 255, 255>>
    /\ h = [LastBlock |-> TRUE, Type |-> 127, Length |-> 2 ^ LengthBits - 1]
    /\ out = <<255, 255, 255, 255>>

-----------------------------------------------------------------------------
(* C19 *)

\* from s on the source holds complete blocks, none flagged last, and then
\* ends where a header would begin
RECURSIVE NoFlagToEnd(_)
NoFlagToEnd(s) ==
    IF Len(s) < 4 THEN TRUE
    ELSE LET hd == DecodeHeader(SubSeq(s, 1, 4))
         IN  /\ ~hd.LastBlock
             /\ Len(s) >= 4 + hd.Length
             /\ NoFlagToEnd(Drop(s, 4 + hd.Length))

\* a source with its signature and STREAMINFO in which no block is flagged last
NoLastBlock ==
    /\ Len(resp.body) >= 4 + StreamInfoLen
    /\ Take(resp.body, 4) = Magic
    /\ resp.body[5] < 128
    /\ NoFlagToEnd(Drop(resp.body, 4 + StreamInfoLen))

InWalk == variant = "walker" /\ pc \in {"header", "whdr", "body", "frames"}

\* C19: every decoded header takes 4 bytes of the source; a walk over a
\* source without a block flagged last never returns without a failure, and
\* when it reads that source to its end the failure is that of the header
\* decode that found fewer than 4 bytes; and every walk returns.
C19_WalkTerminates ==
    /\ [][(pc = "header" /\ pc' = "whdr") => rpos' = rpos + 4]_vars
    /\ []((variant = "walker" /\ pc = "done" /\ storeCalls = 1 /\ NoLastBlock
            /\ hdrReads # <<>>) =>
             /\ failed
             /\ (rpos = Len(resp.body) /\ ~sinkBroken) =>
                   /\ hdrReads[Len(hdrReads)] + 4 > Len(resp.body)
                   /\ ioOps[Len(ioOps)] = "r")
    /\ InWalk ~> (pc = "done")

\* the walk over STREAMINFO + PADDING(2) + 2 stray bytes has decoded the
\* PADDING header, found 2 bytes where the next header should be, and returned
C19_Witness ==
    /\ variant = "walker" /\ pc = "done" /\ NoLastBlock /\ failed
    /\ Len(hdrReads) = 2
    /\ hdrReads[2] + 2 = Len(resp.body)
    /\ rpos = Len(resp.body)
    /\ ~sinkBroken

-----------------------------------------------------------------------------
(* C20 *)

\* C20: in the temp-file handler, whenever the handler has returned after the
\* temporary file was created, the file has been removed, the reopened file
\* is closed and the object store's response body is closed; and the tag tool
\* has only been run on a file that was downloaded to its end and closed.
C20_TempFileCleanup ==
    (variant = "tempfile") =>
        /\ (pc = "done" /\ tmp.exists) => (tmp.removed /\ bodyClosed /\ ~fileOpen)
        /\ (stdin # <<>>) =>
              (tmp.exists /\ tmp.complete /\ tmp.closed /\ rpos = Len(resp.body))
        /\ tmp.tagged => stdin # <<>>

\* the tag tool has failed on a downloaded file and the handler has returned
C20_Witness ==
    /\ variant = "tempfile" /\ pc = "done"
    /\ stdin # <<>> /\ ~tmp.tagged
    /\ tmp.exists /\ tmp.removed /\ bodyClosed
    /\ status = 500

=============================================================================
